---- MODULE Spec2Model ----
(***************************************************************************)
(* Model of generate_thumbnail.py: the orchestration of one invocation     *)
(* (camera setup, render, removal of the working files, linking, archive   *)
(* packing) and the camera placement arithmetic.                           *)
(*                                                                         *)
(* Numbers: the script computes in binary floating point.  The model       *)
(* computes the same expressions, in the same order, over exact rationals  *)
(* <<numerator, denominator>> (denominator > 0, lowest terms).  An angle   *)
(* produced by 2 * atan(x) is carried as the record [tanHalf |-> x], and   *)
(* tan(angle / 2) reads that field back, which is what tan(atan(x)) is     *)
(* for the x >= 0 the script feeds it.                                     *)
(*                                                                         *)
(* File names are sequences of tokens in which "." and "/" are tokens of   *)
(* their own: "cube.usda" is <<"cube", ".", "usda">>.                      *)
(***************************************************************************)
EXTENDS Integers, Sequences, FiniteSets, TLC

VARIABLES
    args,           \* the parsed command line (argparse namespace)
    subject,        \* the subject asset as found on disk: exists, upAxis, bbox
    pc,             \* position of the script
    files,          \* working/ output files present in the working directory
    written,        \* files this invocation has created
    camera,         \* content of camera.usda (a record), or NoCamera
    renderRuns,     \* exit codes of the usdrecord processes run, in order
    thumbnail,      \* default thumbnail recorded on the link target: <<>> or <<path>>
    linkTarget,     \* <<>> or <<file whose root layer receives the thumbnail>>
    packRuns,       \* usdzip processes run: records [cmd, exit], in order
    exitStatus,     \* <<>> while running, <<code>> once the process has exited
    stages,         \* stages entered so far, in order
    fovIn,          \* SpecFov: the arguments of calculate_field_of_view_distance
    fovOut          \* SpecFov: <<>> or <<its result>>

vars == <<args, subject, pc, files, written, camera, renderRuns, thumbnail,
          linkTarget, packRuns, exitStatus, stages, fovIn, fovOut>>

-----------------------------------------------------------------------------
(* Bounds of the model *)

\* extents of the bounding box along each axis range over 0..MaxExt
MaxExt == 2
\* min.x and min.y range over -MaxXY..0
MaxXY == 1
\* min.z ranges over -MaxZ..MaxZ
MaxZ == 3
\* --width ranges over 1..MaxRes and --height over 0..MaxRes (0: not given)
MaxRes == 2
\* arguments of calculate_field_of_view_distance range over 1..MaxFov
MaxFov == 4

-----------------------------------------------------------------------------
(* Exact rational arithmetic standing for Python floats *)

RECURSIVE GCD(_, _)
GCD(a, b) == IF b = 0 THEN a ELSE GCD(b, a % b)

Abs(n) == IF n < 0 THEN -n ELSE n

\* n/d in lowest terms with a positive denominator (d # 0)
Norm(n, d) ==
    LET g == GCD(Abs(n), Abs(d))
        s == IF d < 0 THEN -1 ELSE 1
    IN  <<(s * n) \div g, (s * d) \div g>>

R(n) == <<n, 1>>
RAdd(a, b) == Norm(a[1] * b[2] + b[1] * a[2], a[2] * b[2])
RSub(a, b) == Norm(a[1] * b[2] - b[1] * a[2], a[2] * b[2])
RMul(a, b) == Norm(a[1] * b[1], a[2] * b[2])
RDiv(a, b) == Norm(a[1] * b[2], a[2] * b[1])
\* a <= b, comparing integer parts first so that products stay small
RLe(a, b) ==
    LET qa == a[1] \div a[2]
        qb == b[1] \div b[2]
    IN  IF qa # qb THEN qa < qb
        ELSE (a[1] % a[2]) * b[2] <= (b[1] % b[2]) * a[2]
RLt(a, b) == ~RLe(b, a)
\* Python max(a, b): b only when it is strictly greater
RMax(a, b) == IF RLt(a, b) THEN b ELSE a

Vec3(x, y, z) == <<x, y, z>>
VAdd(u, v) == <<RAdd(u[1], v[1]), RAdd(u[2], v[2]), RAdd(u[3], v[3])>>
VHalf(u) == <<RDiv(u[1], R(2)), RDiv(u[2], R(2)), RDiv(u[3], R(2))>>

-----------------------------------------------------------------------------
(* File names *)

CameraFile == <<"camera", ".", "usda">>
YUpFile == <<"y_up", ".", "usda">>

\* index of the last "." token that starts a suffix, 0 when there is none
SuffixAt(p) ==
    LET dots == {i \in 2..(Len(p) - 1) : p[i] = "."}
    IN  IF dots = {} THEN 0 ELSE CHOOSE i \in dots : \A j \in dots : j <= i

\* pathlib accepts a suffix only when it is empty or is "." followed by text
ValidSuffix(suffix) ==
    suffix = <<>> \/ (Len(suffix) > 1 /\ Head(suffix) = "." /\ "/" \notin {suffix[i] : i \in DOMAIN suffix})

\* Path(p).with_suffix(suffix), where it does not raise ValueError
with_suffix(p, suffix) ==
    (IF SuffixAt(p) = 0 THEN p ELSE SubSeq(p, 1, SuffixAt(p) - 1)) \o suffix

\* str.split('.')[0]
SplitDot0(p) ==
    LET dots == {i \in 1..Len(p) : p[i] = "."}
    IN  IF dots = {} THEN p
        ELSE SubSeq(p, 1, (CHOOSE i \in dots : \A j \in dots : i <= j) - 1)

\* ".usdz" in usd_file
IsUsdz(usd_file) ==
    \E i \in 1..(Len(usd_file) - 1) : usd_file[i] = "." /\ usd_file[i + 1] = "usdz"

create_image_filename(input_path, extension) ==
    with_suffix(input_path, <<".">> \o extension)

\* os.path.join("renders", create_image_filename(...)).replace("\\", "/")
ImagePath(usd_file, extension) ==
    <<"renders", "/">> \o create_image_filename(usd_file, extension)

ThumbnailUsda == <<"_Thumbnail", ".", "usda">>
ThumbnailUsdz == <<"_Thumbnail", ".", "usdz">>

\* the file create_usdz_wrapper_stage creates
WrapperFile(usdz_file) == SplitDot0(usdz_file) \o ThumbnailUsda

-----------------------------------------------------------------------------
(* Camera optics and placement *)

FocalLength == 50
Aperture == 24
\* distance / 10.0 and extent * 10: millimetres per scene unit
MmPerUnit == 10
\* nearClip = max(nearClip, 0.0000001) : the clamp is 1 / EpsDen
EpsDen == 10000000
MinNearClip == <<1, EpsDen>>

NoCamera == [exists |-> FALSE]

\* create_camera: the attributes written to /ThumbnailGenerator/MainCamera
\* (24 * args.width / args.height is true division; args.height of 0 is "not given")
create_camera(a) ==
    [focalLength |-> R(FocalLength),
     horizontalAperture |->
         IF a.height # 0 THEN RDiv(RMul(R(Aperture), R(a.width)), R(a.height))
         ELSE R(Aperture),
     verticalAperture |-> R(Aperture)]

calculate_field_of_view(focal_length, sensor_size) ==
    [tanHalf |-> RDiv(sensor_size, RMul(R(2), focal_length))]

\* (subject_size / 2) / math.tan(field_of_view / 2), defined when the tangent is not 0
DistanceMutantInverse(subject_size, field_of_view) ==
    RMul(RDiv(subject_size, R(2)), field_of_view.tanHalf)
calculate_camera_distance(subject_size, field_of_view) ==
    RDiv(RDiv(subject_size, R(2)), field_of_view.tanHalf)

\* float division by zero: math.tan(0.0) == 0.0
RaisesZeroDivision(field_of_view) == field_of_view.tanHalf[1] = 0

calculate_field_of_view_distance(sensor_size, object_size, focal_length) ==
    calculate_camera_distance(object_size, calculate_field_of_view(focal_length, sensor_size))

DistanceMutantMin(min_bound, max_bound, camera_prim) ==
    LET h == calculate_field_of_view_distance(camera_prim.horizontalAperture,
                 RMul(RSub(max_bound[1], min_bound[1]), R(MmPerUnit)), camera_prim.focalLength)
        v == calculate_field_of_view_distance(camera_prim.verticalAperture,
                 RMul(RSub(max_bound[2], min_bound[2]), R(MmPerUnit)), camera_prim.focalLength)
    IN  IF RLt(h, v) THEN h ELSE v
get_distance_to_camera(min_bound, max_bound, camera_prim) ==
    LET distance_to_capture_horizontal ==
            calculate_field_of_view_distance(camera_prim.horizontalAperture,
                RMul(RSub(max_bound[1], min_bound[1]), R(MmPerUnit)), camera_prim.focalLength)
        distance_to_capture_vertical ==
            calculate_field_of_view_distance(camera_prim.verticalAperture,
                RMul(RSub(max_bound[2], min_bound[2]), R(MmPerUnit)), camera_prim.focalLength)
    IN  RMax(distance_to_capture_horizontal, distance_to_capture_vertical)

get_camera_z_translation(distance) == Vec3(R(0), R(0), distance)

ClampMutantNone(nearClip) == nearClip
ClampNear(nearClip) == RMax(nearClip, MinNearClip)

\* the translation returned and the clipping range set on the camera.
\* Gf.Vec2f stores the nearest float32 of each plane; rounding to nearest is
\* monotone and float32(0.0000001) = 13421773 * 2^-47 > 0.0000001, so the
\* order of a stored plane against the clamp is the order computed here.
create_camera_translation_and_clipping(bounding_box, camera_prim) ==
    LET min_bound == bounding_box.min
        max_bound == bounding_box.max
        subject_center == VHalf(VAdd(min_bound, max_bound))
        distance == get_distance_to_camera(min_bound, max_bound, camera_prim)
        center_of_thumbnail_face == Vec3(subject_center[1], subject_center[2], max_bound[3])
        distanceInCm == RDiv(distance, R(MmPerUnit))
        cameraZ == VAdd(center_of_thumbnail_face, get_camera_z_translation(distanceInCm))
        nearClip == RMul(RAdd(distanceInCm, min_bound[3]), <<1, 2>>)
        farClip == RMul(RAdd(distanceInCm, max_bound[3]), R(2))
    IN  [cameraZ |-> cameraZ,
         clippingPlanes |-> <<ClampNear(nearClip), farClip>>,
         distanceInCm |-> distanceInCm]

\* the two field-of-view computations of get_distance_to_camera divide by tan(fov / 2)
MoveCameraRaises(camera_prim) ==
    \/ RaisesZeroDivision(calculate_field_of_view(camera_prim.focalLength, camera_prim.horizontalAperture))
    \/ RaisesZeroDivision(calculate_field_of_view(camera_prim.focalLength, camera_prim.verticalAperture))

-----------------------------------------------------------------------------
(* Inputs *)

Box(minx, miny, minz, ex, ey, ez) ==
    [min |-> Vec3(R(minx), R(miny), R(minz)),
     max |-> Vec3(R(minx + ex), R(miny + ey), R(minz + ez))]

\* every box with integer corners inside the bounds
Boxes ==
    {Box(minx, miny, minz, ex, ey, ez) :
        minx \in -MaxXY..0, miny \in -MaxXY..0, minz \in -MaxZ..MaxZ,
        ex \in 0..MaxExt, ey \in 0..MaxExt, ez \in 0..MaxExt}

\* the orchestration is explored on a 2 x 2 x 2 cube at the origin, on a cube
\* off the origin and on a scene without extent
PipelineBoxes == {Box(-1, -1, -1, 2, 2, 2), Box(0, 0, 1, 1, 2, 1), Box(0, 0, 0, 0, 0, 0)}

SubjectNames ==
    {<<"cube", ".", "usda">>, <<"cube", ".", "usdz">>, <<"my", ".", "model", ".", "usdc">>}

\* exit codes of an external process: 0, or any non-zero code
ExitCodes == {0, 1}

NoFov == [sensor |-> 1, object |-> 1, focal |-> 1]

-----------------------------------------------------------------------------
(* The invocation *)

Init ==
    /\ args \in [usd_file : SubjectNames, dome_light : BOOLEAN,
                 create_usdz_result : BOOLEAN, width : 0..MaxRes, height : 0..MaxRes,
                 output_extension : {<<"png">>}]
    /\ subject \in [exists : BOOLEAN, upAxis : {"Y", "Z"}, bbox : PipelineBoxes,
                    file : {<<>>}]
    /\ pc = "Idle"
    /\ files \in SUBSET {CameraFile, YUpFile}   \* left behind by an earlier run, or not
    /\ written = {}
    /\ camera = NoCamera
    /\ renderRuns = <<>>
    /\ thumbnail = <<>>
    /\ linkTarget = <<>>
    /\ packRuns = <<>>
    /\ exitStatus = <<>>
    /\ stages = <<>>
    /\ fovIn = NoFov
    /\ fovOut = <<>>

\* an uncaught exception ends the interpreter with status 1
Raise ==
    /\ pc' = "Failed"
    /\ exitStatus' = <<1>>

\* generate_thumbnail, Usd.Stage.Open(usd_file): subject_stage and subject_file
OpenSubject ==
    /\ pc = "Idle"
    /\ stages' = Append(stages, "CameraSetup")
    /\ IF ~subject.exists
       THEN Raise /\ UNCHANGED subject
       ELSE /\ subject' = [subject EXCEPT !.file = args.usd_file]
            /\ pc' = IF subject.upAxis = "Z" THEN "NormalizeUpAxis" ELSE "SetupCamera"
            /\ UNCHANGED exitStatus
    /\ UNCHANGED <<args, files, written, camera, renderRuns, thumbnail, linkTarget,
                   packRuns, fovIn, fovOut>>

\* generate_thumbnail: subject_stage = generate_y_up_stage(...); subject_file = 'y_up.usda'.
\* The box get_bounding_box later reports for the new stage (the subject referenced
\* under /Root, rotated by 270 degrees about X) is the bounding-box cache's answer
\* for another stage: any box.
generate_y_up_stage ==
    /\ pc = "NormalizeUpAxis"
    /\ files' = files \cup {YUpFile}
    /\ written' = written \cup {YUpFile}
    /\ \E b \in PipelineBoxes :
          subject' = [subject EXCEPT !.file = YUpFile, !.bbox = b]
    /\ pc' = "SetupCamera"
    /\ UNCHANGED <<args, camera, renderRuns, thumbnail, linkTarget, packRuns,
                   exitStatus, stages, fovIn, fovOut>>

\* sublayer_subject: camera_stage.GetRootLayer().subLayerPaths = [input_file]
SublayerMutantOriginal(input_file) == <<args.usd_file>>
sublayer_subject(input_file) == <<input_file>>

\* setup_camera(subject_stage, subject_file): create_camera, move_camera,
\* add_domelight, sublayer_subject
setup_camera ==
    /\ pc = "SetupCamera"
    /\ files' = files \cup {CameraFile}
    /\ written' = written \cup {CameraFile}
    /\ LET camera_prim == create_camera(args)
           placement == create_camera_translation_and_clipping(subject.bbox, camera_prim)
       IN  IF MoveCameraRaises(camera_prim)
           THEN Raise /\ UNCHANGED camera
           ELSE /\ camera' = [exists |-> TRUE,
                              optics |-> camera_prim,
                              translation |-> placement.cameraZ,
                              clippingRange |-> placement.clippingPlanes,
                              distance |-> placement.distanceInCm,
                              box |-> subject.bbox,
                              domeLight |-> args.dome_light,
                              subLayerPaths |-> sublayer_subject(subject.file)]
                /\ pc' = "Rendering"
                /\ UNCHANGED exitStatus
    /\ UNCHANGED <<args, subject, renderRuns, thumbnail, linkTarget, packRuns,
                   stages, fovIn, fovOut>>

\* subprocess.run(cmd, check=True, ...): CalledProcessError on a non-zero exit
UsdrecordMutantNoCheck(code) == FALSE
UsdrecordRaises(code) == code # 0

\* take_snapshot up to run_os_specific_usdrecord(cmd): the render is awaited
run_os_specific_usdrecord ==
    /\ pc = "Rendering"
    /\ stages' = Append(stages, "Rendering")
    /\ \E code \in ExitCodes :
        /\ renderRuns' = Append(renderRuns, code)
        /\ IF UsdrecordRaises(code)
           THEN Raise /\ UNCHANGED files
           ELSE /\ files' = IF code = 0
                            THEN files \cup {ImagePath(args.usd_file, args.output_extension)}
                            ELSE files
                /\ pc' = "Cleanup"
                /\ UNCHANGED exitStatus
    /\ UNCHANGED <<args, subject, written, camera, thumbnail, linkTarget, packRuns,
                   fovIn, fovOut>>

\* os.remove("camera.usda"); if os.path.isfile("y_up.usda"): os.remove("y_up.usda")
RemoveMutantCameraOnly(fs) == fs \ {CameraFile}
RemoveTemporaries(fs) == fs \ {CameraFile, YUpFile}

\* the rest of take_snapshot: the working files are removed, image_name is returned
RemoveWorkingFiles ==
    /\ pc = "Cleanup"
    /\ stages' = Append(stages, "Cleanup")
    /\ IF CameraFile \notin files
       THEN Raise /\ UNCHANGED files
       ELSE /\ files' = RemoveTemporaries(files)
            /\ pc' = "OpenLinkTarget"
            /\ UNCHANGED exitStatus
    /\ UNCHANGED <<args, subject, written, camera, renderRuns, thumbnail, linkTarget,
                   packRuns, fovIn, fovOut>>

\* __main__: create_usdz_wrapper_stage(usd_file) if is_usdz else Usd.Stage.Open(usd_file)
OpenLinkTarget ==
    /\ pc = "OpenLinkTarget"
    /\ IF IsUsdz(args.usd_file)
       THEN /\ files' = files \cup {WrapperFile(args.usd_file)}
            /\ written' = written \cup {WrapperFile(args.usd_file)}
            /\ linkTarget' = <<WrapperFile(args.usd_file)>>
       ELSE /\ linkTarget' = <<args.usd_file>>
            /\ UNCHANGED <<files, written>>
    /\ pc' = "Linking"
    /\ UNCHANGED <<args, subject, camera, renderRuns, thumbnail, packRuns, exitStatus,
                   stages, fovIn, fovOut>>

\* link_image_to_subject, then the test of args.create_usdz_result
link_image_to_subject ==
    /\ pc = "Linking"
    /\ stages' = Append(stages, "Linking")
    /\ thumbnail' = <<ImagePath(args.usd_file, args.output_extension)>>
    /\ IF args.create_usdz_result
       THEN pc' = "ArchivePacking" /\ UNCHANGED exitStatus
       ELSE pc' = "Done" /\ exitStatus' = <<0>>
    /\ UNCHANGED <<args, subject, files, written, camera, renderRuns, linkTarget,
                   packRuns, fovIn, fovOut>>

\* zip_results raises ValueError where pathlib rejects the suffix it is given
zip_results_raises(is_usdz) ==
    \/ is_usdz /\ ~ValidSuffix(ThumbnailUsda)
    \/ ~ValidSuffix(ThumbnailUsdz)

\* cmd = ["usdzip", "-r", usdz_file] + file_list
zip_cmd(usd_file, image_name, is_usdz) ==
    [output |-> with_suffix(usd_file, ThumbnailUsdz),
     members |-> <<usd_file, image_name>> \o
                 (IF is_usdz THEN <<with_suffix(usd_file, ThumbnailUsda)>> ELSE <<>>)]

\* zip_results: subprocess.run(cmd) has no check, the exit code is dropped
zip_results ==
    /\ pc = "ArchivePacking"
    /\ stages' = Append(stages, "ArchivePacking")
    /\ IF zip_results_raises(IsUsdz(args.usd_file))
       THEN Raise /\ UNCHANGED packRuns
       ELSE \E code \in ExitCodes :
               /\ packRuns' = Append(packRuns,
                      [cmd |-> zip_cmd(args.usd_file, thumbnail[1], IsUsdz(args.usd_file)),
                       exit |-> code])
               /\ pc' = "Done"
               /\ exitStatus' = <<0>>
    /\ UNCHANGED <<args, subject, files, written, camera, renderRuns, thumbnail,
                   linkTarget, fovIn, fovOut>>

Next ==
    \/ OpenSubject
    \/ generate_y_up_stage
    \/ setup_camera
    \/ run_os_specific_usdrecord
    \/ RemoveWorkingFiles
    \/ OpenLinkTarget
    \/ link_image_to_subject
    \/ zip_results

Spec == Init /\ [][Next]_vars

Terminated == pc \in {"Done", "Failed"}

-----------------------------------------------------------------------------
(* The placement planner on its own: the state in which setup_camera starts, *)
(* for every box and resolution inside the bounds                            *)

InitPlacement ==
    /\ args \in [usd_file : {<<"cube", ".", "usda">>}, dome_light : {FALSE},
                 create_usdz_result : {FALSE}, width : 1..MaxRes, height : 0..MaxRes,
                 output_extension : {<<"png">>}]
    /\ subject \in [exists : {TRUE}, upAxis : {"Y"}, bbox : Boxes,
                    file : {<<"cube", ".", "usda">>}]
    /\ pc = "SetupCamera"
    /\ files = {}
    /\ written = {}
    /\ camera = NoCamera
    /\ renderRuns = <<>>
    /\ thumbnail = <<>>
    /\ linkTarget = <<>>
    /\ packRuns = <<>>
    /\ exitStatus = <<>>
    /\ stages = <<"CameraSetup">>
    /\ fovIn = NoFov
    /\ fovOut = <<>>

NextPlacement == setup_camera

SpecPlacement == InitPlacement /\ [][NextPlacement]_vars

-----------------------------------------------------------------------------
(* calculate_field_of_view_distance on its own *)

InitFov ==
    /\ args = [usd_file |-> <<"cube", ".", "usda">>, dome_light |-> FALSE,
               create_usdz_result |-> FALSE, width |-> 1, height |-> 0,
               output_extension |-> <<"png">>]
    /\ subject = [exists |-> TRUE, upAxis |-> "Y", bbox |-> Box(0, 0, 0, 0, 0, 0),
                  file |-> <<>>]
    /\ pc = "Fov"
    /\ files = {}
    /\ written = {}
    /\ camera = NoCamera
    /\ renderRuns = <<>>
    /\ thumbnail = <<>>
    /\ linkTarget = <<>>
    /\ packRuns = <<>>
    /\ exitStatus = <<>>
    /\ stages = <<>>
    /\ fovIn \in [sensor : 1..MaxFov, object : 1..MaxFov, focal : 1..MaxFov]
    /\ fovOut = <<>>

ApplyFov ==
    /\ pc = "Fov"
    /\ fovOut = <<>>
    /\ fovOut' = <<calculate_field_of_view_distance(R(fovIn.sensor), R(fovIn.object),
                                                    R(fovIn.focal))>>
    /\ UNCHANGED <<args, subject, pc, files, written, camera, renderRuns, thumbnail,
                   linkTarget, packRuns, exitStatus, stages, fovIn>>

NextFov == ApplyFov

SpecFov == InitFov /\ [][NextFov]_vars

-----------------------------------------------------------------------------
(* Properties of the invocation, checked under Spec *)

TemporaryFiles == {CameraFile, YUpFile}

Contains(seq, x) == \E i \in DOMAIN seq : seq[i] = x

IsPrefix(s, t) == Len(s) <= Len(t) /\ SubSeq(t, 1, Len(s)) = s

\* C1: an invocation that created camera.usda (and y_up.usda for a Z-up subject)
\* and ran the renderer leaves neither file behind when it ends, whatever the
\* renderer's exit code was.
C1_TemporariesGoneAtExit ==
    (Terminated /\ renderRuns # <<>> /\ written \cap TemporaryFiles # {})
        => files \cap TemporaryFiles = {}

\* C2: the default thumbnail is recorded only after a render that exited 0; a
\* render that exits non-zero is the only render run, ends the invocation with
\* a non-zero status, and is followed by neither linking nor packing.
C2_LinkOnlyAfterRenderSuccess ==
    /\ thumbnail # <<>> => renderRuns = <<0>>
    /\ (renderRuns # <<>> /\ renderRuns[Len(renderRuns)] # 0) =>
          /\ Len(renderRuns) = 1
          /\ pc = "Failed"
          /\ exitStatus # <<>> /\ exitStatus[1] # 0
          /\ thumbnail = <<>>
          /\ packRuns = <<>>
          /\ ~Contains(stages, "Linking")
          /\ ~Contains(stages, "ArchivePacking")

C2_Witness ==
    /\ renderRuns = <<1>>
    /\ pc = "Failed"
    /\ args.create_usdz_result

\* C3 as stated: a successful invocation goes through CameraSetup, Rendering,
\* Linking, ArchivePacking (when requested), Cleanup, in this order.
C3_CleanupAfterLinking ==
    (pc = "Done" /\ exitStatus = <<0>>) =>
        stages = <<"CameraSetup", "Rendering", "Linking">>
                 \o (IF args.create_usdz_result THEN <<"ArchivePacking">> ELSE <<>>)
                 \o <<"Cleanup">>

\* C3 amended: the working files are removed right after the render, before
\* linking and before archive packing: the stages of every invocation follow the
\* order CameraSetup, Rendering, Cleanup, Linking, ArchivePacking (only when
\* requested), no working file is left once linking has begun, and an invocation
\* that ends in success has gone through CameraSetup, Rendering, Cleanup, Linking.
C3_CleanupBeforeLinking ==
    /\ IsPrefix(stages, <<"CameraSetup", "Rendering", "Cleanup", "Linking", "ArchivePacking">>)
    /\ Contains(stages, "ArchivePacking") => args.create_usdz_result
    /\ Contains(stages, "Linking") => files \cap TemporaryFiles = {}
    /\ (pc = "Done" /\ exitStatus = <<0>>) =>
          IsPrefix(<<"CameraSetup", "Rendering", "Cleanup", "Linking">>, stages)

C3_Witness ==
    /\ pc = "Done"
    /\ exitStatus = <<0>>
    /\ subject.upAxis = "Z"
    /\ TemporaryFiles \subseteq written
    /\ stages = <<"CameraSetup", "Rendering", "Cleanup", "Linking">>

\* C5: with archive output requested and rendering and linking done, the
\* invocation ends Done having run the packer exactly once, on the output
\* <base>_Thumbnail.usdz, with the subject, the image and (for a .usdz subject)
\* the wrapper layer among the members.
C5_PackerRunOnce ==
    (Terminated /\ args.create_usdz_result /\ thumbnail # <<>>) =>
        /\ pc = "Done"
        /\ Len(packRuns) = 1
        /\ packRuns[1].cmd.output = with_suffix(args.usd_file, <<>>) \o ThumbnailUsdz
        /\ Contains(packRuns[1].cmd.members, args.usd_file)
        /\ Contains(packRuns[1].cmd.members, thumbnail[1])
        /\ IsUsdz(args.usd_file) =>
              Contains(packRuns[1].cmd.members, WrapperFile(args.usd_file))

\* Behind C4 and C5: usdzip is never started, and no invocation asked for an
\* archive ends with status 0, because zip_results raises before subprocess.run.
PackerNeverRuns ==
    /\ packRuns = <<>>
    /\ (Terminated /\ args.create_usdz_result) => exitStatus = <<1>>

\* C9: y_up.usda is written, and is the camera layer's sublayer, exactly when
\* the subject is Z-up; for a Y-up subject the subject file itself is the
\* sublayer and no y_up.usda is written.
C9_NormalizedIffZUp ==
    /\ YUpFile \in written => subject.upAxis = "Z"
    /\ camera.exists =>
          /\ (subject.upAxis = "Z") <=> (YUpFile \in written)
          /\ (subject.upAxis = "Z") <=> (camera.subLayerPaths = <<YUpFile>>)
          /\ (subject.upAxis = "Y") => (camera.subLayerPaths = <<args.usd_file>>)

C9_Witness ==
    /\ camera.exists
    /\ subject.upAxis = "Y"
    /\ YUpFile \notin written
    /\ camera.subLayerPaths = <<args.usd_file>>

-----------------------------------------------------------------------------
(* Properties of the placement, checked under SpecPlacement *)

RAbs(a) == <<Abs(a[1]), a[2]>>

ExtX == RSub(camera.box.max[1], camera.box.min[1])
ExtY == RSub(camera.box.max[2], camera.box.min[2])
ExtZ == RSub(camera.box.max[3], camera.box.min[3])

\* (distance + min.z) * 0.5 before the clamp
RawNear == RMul(RAdd(camera.distance, camera.box.min[3]), <<1, 2>>)

\* C6: the near clip written to the camera is never below 0.0000001.
C6_NearClipClamped ==
    camera.exists => RLe(MinNearClip, camera.clippingRange[1])

C6_Witness ==
    /\ camera.exists
    /\ RLt(RawNear, R(0))
    /\ camera.clippingRange[1] = MinNearClip

\* C7: for a box of positive extent on every axis, the front face (at the
\* camera distance) and the back face (at the distance plus the depth of the
\* box) are inside the clipping range.
C7_DepthInsideClippingRange ==
    (camera.exists /\ RLt(R(0), ExtX) /\ RLt(R(0), ExtY) /\ RLt(R(0), ExtZ)) =>
        /\ RLe(camera.clippingRange[1], camera.distance)
        /\ RLe(RAdd(camera.distance, ExtZ), camera.clippingRange[2])

Corners ==
    {Vec3(x, y, z) : x \in {camera.box.min[1], camera.box.max[1]},
                     y \in {camera.box.min[2], camera.box.max[2]},
                     z \in {camera.box.min[3], camera.box.max[3]}}

\* aperture / (2 * focalLength)
HalfFovTan(aperture) == RDiv(aperture, RMul(R(2), camera.optics.focalLength))

\* extent (scene units) -> millimetres, times focalLength over aperture
FramingDistanceMm(extent, aperture) ==
    RDiv(RMul(RMul(extent, R(MmPerUnit)), camera.optics.focalLength), aperture)

\* C8: for a box of positive X and Y extent the camera sits at
\* (center.x, center.y, max.z + max(distanceH, distanceV) in scene units), and
\* from there every corner of the box is inside the horizontal and the vertical
\* field of view.
C8_CornersInFieldOfView ==
    (camera.exists /\ RLt(R(0), ExtX) /\ RLt(R(0), ExtY)) =>
        /\ camera.translation =
              Vec3(RDiv(RAdd(camera.box.min[1], camera.box.max[1]), R(2)),
                   RDiv(RAdd(camera.box.min[2], camera.box.max[2]), R(2)),
                   RAdd(camera.box.max[3],
                        RDiv(RMax(FramingDistanceMm(ExtX, camera.optics.horizontalAperture),
                                  FramingDistanceMm(ExtY, camera.optics.verticalAperture)),
                             R(MmPerUnit))))
        /\ \A c \in Corners :
              LET depth == RSub(camera.translation[3], c[3])
              IN  /\ RLt(R(0), depth)
                  /\ RLe(RAbs(RSub(c[1], camera.translation[1])),
                         RMul(HalfFovTan(camera.optics.horizontalAperture), depth))
                  /\ RLe(RAbs(RSub(c[2], camera.translation[2])),
                         RMul(HalfFovTan(camera.optics.verticalAperture), depth))

\* a box wider than the sensor's aspect allows: the horizontal distance governs
C8_Witness ==
    /\ camera.exists
    /\ RLt(R(0), ExtX) /\ RLt(R(0), ExtY) /\ RLt(R(0), ExtZ)
    /\ camera.optics.horizontalAperture # camera.optics.verticalAperture
    /\ RLt(FramingDistanceMm(ExtY, camera.optics.verticalAperture),
           FramingDistanceMm(ExtX, camera.optics.horizontalAperture))

-----------------------------------------------------------------------------
(* Properties of calculate_field_of_view_distance, checked under SpecFov *)

DistanceAt(sensor, object, focal) ==
    calculate_field_of_view_distance(R(sensor), R(object), R(focal))

\* C10 as stated: the distance grows with objectSize and does not grow with
\* focalLength.
C10_DecreasingInFocalLength ==
    fovOut # <<>> =>
        /\ \A o \in 1..MaxFov : fovIn.object < o =>
              RLt(fovOut[1], DistanceAt(fovIn.sensor, o, fovIn.focal))
        /\ \A f \in 1..MaxFov : fovIn.focal < f =>
              RLe(DistanceAt(fovIn.sensor, fovIn.object, f), fovOut[1])

\* C10 amended: the distance is strictly increasing in objectSize and strictly
\* increasing in focalLength.
C10_IncreasingInFocalLength ==
    fovOut # <<>> =>
        /\ \A o \in 1..MaxFov : fovIn.object < o =>
              RLt(fovOut[1], DistanceAt(fovIn.sensor, o, fovIn.focal))
        /\ \A f \in 1..MaxFov : fovIn.focal < f =>
              RLt(fovOut[1], DistanceAt(fovIn.sensor, fovIn.object, f))

C10_Witness ==
    /\ fovOut # <<>>
    /\ fovIn.object < MaxFov
    /\ fovIn.focal < MaxFov
    /\ RLt(fovOut[1], DistanceAt(fovIn.sensor, fovIn.object, fovIn.focal + 1))

====
